---- MODULE Spec2Model ----
(***************************************************************************)
(* Moviesque backend (src/main.py): the TMDb response normalizer           *)
(* (map_item, search, title_details) and the watchlist endpoints over the  *)
(* "watchlistitem" collection.                                             *)
(*                                                                         *)
(* Python values are encoded so that values of different Python types are  *)
(* never compared: an optional value is None (<<>>) or Some(v) (<<v>>); a  *)
(* JSON object is a function from the keys it carries to such values, so a *)
(* key that is absent and a key that carries null are different inputs.    *)
(* Strings that the code takes apart (dates) are sequences of characters.  *)
(***************************************************************************)
EXTENDS Integers, Sequences, FiniteSets, TLC

VARIABLES
    store,      \* db["watchlistitem"]: ObjectId -> document
    nextId,     \* the next ObjectId the store hands out
    now,        \* the next value datetime.utcnow() returns
    req,        \* the watchlist request being answered, if any
    resp,       \* the HTTP response to it
    prev,       \* the collection as it was when that request arrived
    pc,         \* concurrent updates: each client's position in the handler
    local,      \* concurrent updates: each client's item_id and update_data
    cresp,      \* concurrent updates: each client's HTTP response
    item,       \* map_item: the upstream record
    mapped,     \* map_item: its outcome
    data,       \* title_details: what the upstream call meets
    detail,     \* title_details: its outcome
    upstream,   \* search: what the upstream call meets
    found       \* search: its outcome

vars == <<store, nextId, now, req, resp, prev, pc, local, cresp,
          item, mapped, data, detail, upstream, found>>

wlVars == <<store, nextId, now, req, resp, prev>>
concVars == <<pc, local, cresp>>
mapVars == <<item, mapped>>
detailVars == <<data, detail>>
searchVars == <<upstream, found>>

(***************************************************************************)
(* Bounds of the model.                                                    *)
(***************************************************************************)
MaxItems == 2       \* documents ever inserted
MaxClock == 3       \* readings of the clock
MaxDateLen == 3     \* length of an upstream date string
MaxResults == 3     \* length of an upstream result list
MaxVideos == 3      \* length of an upstream video list

(***************************************************************************)
(* Python values.                                                          *)
(***************************************************************************)
None == <<>>
Some(v) == <<v>>

\* dict.get(key): the value, or None when the key is absent
Get(obj, key) == IF key \in DOMAIN obj THEN obj[key] ELSE None

\* HTTP outcomes of a handler body: a returned JSON body or a raised exception
Return(status, id) == [kind |-> "return", code |-> 200, status |-> status, id |-> id]
Raise(exc, code) == [kind |-> "raise", code |-> code, status |-> exc, id |-> 0]

NoRequest == [op |-> "none", item_id |-> 0, body |-> <<>>]
NoResponse == [kind |-> "none", code |-> 0, status |-> "", id |-> 0]

(***************************************************************************)
(* The normalizer.                                                         *)
(***************************************************************************)
IMG_W500 == "https://image.tmdb.org/t/p/w500"
IMG_ORIGINAL == "https://image.tmdb.org/t/p/original"

\* truth value of an optional string, of an optional number and of an
\* optional sequence (a date, a list): None, "", 0 and [] are false
TruthyStr(o) == o # None /\ o # Some("")
TruthyNum(o) == o # None /\ o # Some(0)
TruthySeq(o) == o # None /\ o # Some(<<>>)

Digits == {"0", "1", "2", "3", "4", "5", "6", "7", "8", "9"}

DigitValue(ch) ==
    CASE ch = "0" -> 0 [] ch = "1" -> 1 [] ch = "2" -> 2 [] ch = "3" -> 3
      [] ch = "4" -> 4 [] ch = "5" -> 5 [] ch = "6" -> 6 [] ch = "7" -> 7
      [] ch = "8" -> 8 [] ch = "9" -> 9

\* date.split("-")[0]: the characters before the first "-"
FirstSegment(date) ==
    LET dashes == {i \in 1 .. Len(date) : date[i] = "-"}
        first == CHOOSE i \in dashes : \A j \in dashes : i <= j
    IN  IF dashes = {} THEN date ELSE SubSeq(date, 1, first - 1)

RECURSIVE DecimalValue(_)
DecimalValue(seg) ==
    IF seg = <<>> THEN 0
    ELSE 10 * DecimalValue(SubSeq(seg, 1, Len(seg) - 1)) + DigitValue(seg[Len(seg)])

\* int(seg): ValueError on "" and on a string with a character that is no
\* digit (of the characters the model draws dates from)
IntRaises(seg) == seg = <<>> \/ \E i \in 1 .. Len(seg) : seg[i] \notin Digits

\* item.get("media_type") or ("tv" if item.get("name") else "movie")
MediaTypeByTitle(rec) ==
    IF TruthyStr(Get(rec, "media_type")) THEN Get(rec, "media_type")
    ELSE IF TruthyStr(Get(rec, "title")) THEN Some("movie")
    ELSE IF TruthyStr(Get(rec, "name")) THEN Some("tv") ELSE Some("movie")

MediaTypeOf(rec) ==
    IF TruthyStr(Get(rec, "media_type")) THEN Get(rec, "media_type")
    ELSE IF TruthyStr(Get(rec, "name")) THEN Some("tv") ELSE Some("movie")

\* item.get("title") or item.get("name")
TitleOf(rec) ==
    IF TruthyStr(Get(rec, "title")) THEN Get(rec, "title") ELSE Get(rec, "name")

\* item.get("release_date") or item.get("first_air_date")
DateOf(rec) ==
    IF TruthySeq(Get(rec, "release_date"))
    THEN Get(rec, "release_date") ELSE Get(rec, "first_air_date")

\* f"{base}{item[key]}" if item.get(key) else None
ImageOf(base, rec, key) ==
    IF TruthyStr(Get(rec, key)) THEN Some(base \o rec[key][1]) ELSE None

\* map_item(item): the canonical item, or the ValueError int() raises
map_item(rec) ==
    LET date == DateOf(rec)
        seg == FirstSegment(date[1])
    IN  IF TruthySeq(date) /\ IntRaises(seg)
        THEN Raise("ValueError", 0)
        ELSE [kind |-> "return",
              value |-> [id |-> Get(rec, "id"),
                         media_type |-> MediaTypeOf(rec),
                         title |-> TitleOf(rec),
                         overview |-> Get(rec, "overview"),
                         poster |-> ImageOf(IMG_W500, rec, "poster_path"),
                         backdrop |-> ImageOf(IMG_ORIGINAL, rec, "backdrop_path"),
                         rating |-> Get(rec, "vote_average"),
                         votes |-> Get(rec, "vote_count"),
                         year |-> IF TruthySeq(date)
                                  THEN Some(DecimalValue(seg)) ELSE None]]

\* the entries of a list that the code keeps, in order
RECURSIVE Filter(_, _)
Filter(seq, keep) ==
    IF seq = <<>> THEN <<>>
    ELSE IF seq[1] \in keep
         THEN <<seq[1]>> \o Filter(Tail(seq), keep)
         ELSE Filter(Tail(seq), keep)

\* [map_item(x) for x in entries]: the list, or the first exception raised
MapAll(entries) ==
    IF \E i \in 1 .. Len(entries) : map_item(entries[i]).kind = "raise"
    THEN Raise("ValueError", 0)
    ELSE [kind |-> "return",
          value |-> [results |-> [i \in 1 .. Len(entries) |-> map_item(entries[i]).value]]]

\* x.get("media_type") in ("movie", "tv")
IsNotPerson(x) == Get(x, "media_type") # Some("person")

IsMovieOrTv(x) == Get(x, "media_type") \in {Some("movie"), Some("tv")}

\* tmdb_get(path, params): the JSON of the upstream response, or the
\* HTTPException for a missing API key or a response that is not ok
tmdb_get(env) ==
    IF ~env.api_key THEN Raise("TMDB_API_KEY is not set in environment", 500)
    ELSE IF ~env.ok THEN Raise("upstream", env.status_code)
    ELSE [kind |-> "return", value |-> env.json]

\* data.get(key, []) of a key that is absent or carries a list
ListOf(rec, key) == IF Get(rec, key) = None THEN <<>> ELSE rec[key][1]

\* search: data.get("results", []) filtered to movie/tv, then normalized
search(env) ==
    LET got == tmdb_get(env)
        entries == ListOf(got.value, "results")
        filtered == Filter(entries, {x \in {entries[i] : i \in 1 .. Len(entries)} :
                                        IsMovieOrTv(x)})
    IN  IF got.kind = "raise" THEN got ELSE MapAll(filtered)

CastLimit == 10

\* v.get("site") == "YouTube" and v.get("type") in ("Trailer", "Teaser")
IsTrailerOnly(v) ==
    Get(v, "site") = Some("YouTube") /\ Get(v, "type") = Some("Trailer")

IsTrailer(v) ==
    Get(v, "site") = Some("YouTube") /\ Get(v, "type") \in {Some("Trailer"), Some("Teaser")}

\* next((v for v in videos if ...), None), then yt.get("key") if yt else None
TrailerKey(videos) ==
    LET hits == {i \in 1 .. Len(videos) : IsTrailer(videos[i])}
        first == CHOOSE i \in hits : \A j \in hits : i <= j
    IN  IF hits = {} THEN None ELSE Get(videos[first], "key")

\* data.get("runtime") or (episode_run_time[0] if episode_run_time else None)
RuntimeOf(rec) ==
    IF TruthyNum(Get(rec, "runtime")) THEN Get(rec, "runtime")
    ELSE IF TruthySeq(Get(rec, "episode_run_time"))
         THEN rec["episode_run_time"][1][1] ELSE None

\* one entry of item["cast"]
CastOf(c) ==
    [id |-> Get(c, "id"), name |-> Get(c, "name"), character |-> Get(c, "character"),
     profile |-> ImageOf(IMG_W500, c, "profile_path")]

\* data.get(outer, {}).get(inner, []) of keys that are absent or carry an
\* object and a list
NestedListOf(rec, outer, inner) ==
    ListOf(IF Get(rec, outer) = None THEN <<>> ELSE rec[outer][1], inner)

\* title_details: map_item(data) extended with the detail fields
title_details(env) ==
    LET got == tmdb_get(env)
        rec == got.value
        base == map_item(rec)
        genres == ListOf(rec, "genres")
        cast == NestedListOf(rec, "credits", "cast")
        shown == SubSeq(cast, 1, IF Len(cast) < CastLimit THEN Len(cast) ELSE CastLimit)
        videos == NestedListOf(rec, "videos", "results")
    IN  IF got.kind = "raise" THEN got
        ELSE IF base.kind = "raise" THEN base
        ELSE [kind |-> "return",
              value |-> base.value @@
                [genres |-> [i \in 1 .. Len(genres) |-> Get(genres[i], "name")],
                 runtime |-> RuntimeOf(rec),
                 release_date |-> DateOf(rec),
                 tagline |-> Get(rec, "tagline"),
                 cast |-> [i \in 1 .. Len(shown) |-> CastOf(shown[i])],
                 trailer_key |-> TrailerKey(videos)]]

(***************************************************************************)
(* The boundary contract: the pydantic models of the request bodies.       *)
(***************************************************************************)
MediaTypes == {"movie", "tv"}
Statuses == {"later", "watching", "watched"}

RatingMin == 0
RatingMax == 10

\* Optional[float] = Field(None, ge=0, le=10)
RatingOKNoUpper(r) == r = None \/ r[1] >= RatingMin

RatingOK(r) == r = None \/ (r[1] >= RatingMin /\ r[1] <= RatingMax)

UpdateFields == {"status", "liked", "rating"}

\* WatchlistUpdate accepts the body: every field is Optional
ValidUpdate(body) ==
    /\ Get(body, "status") = None \/ Get(body, "status")[1] \in Statuses
    /\ RatingOK(Get(body, "rating"))

\* WatchlistUpdate(**body): absent keys take the default None
WatchlistUpdate(body) == [f \in UpdateFields |-> Get(body, f)]

CreateRequired == {"user_id", "tmdb_id", "title"}

\* WatchlistCreate accepts the body: required keys present, a key that is
\* present and not Optional carries no null, enumerations and range hold
ValidCreate(body) ==
    /\ CreateRequired \subseteq DOMAIN body
    /\ \A f \in DOMAIN body \ {"poster", "backdrop", "year", "rating"} : body[f] # None
    /\ "media_type" \in DOMAIN body => body["media_type"][1] \in MediaTypes
    /\ "status" \in DOMAIN body => body["status"][1] \in Statuses
    /\ RatingOK(Get(body, "rating"))

\* WatchlistCreate(**body).model_dump(): absent keys take their defaults
WatchlistCreate(body) ==
    [user_id |-> body["user_id"],
     tmdb_id |-> body["tmdb_id"],
     media_type |-> IF "media_type" \in DOMAIN body THEN body["media_type"] ELSE Some("movie"),
     title |-> body["title"],
     poster |-> Get(body, "poster"),
     backdrop |-> Get(body, "backdrop"),
     year |-> Get(body, "year"),
     status |-> IF "status" \in DOMAIN body THEN body["status"] ELSE Some("later"),
     liked |-> IF "liked" \in DOMAIN body THEN body["liked"] ELSE Some(FALSE),
     rating |-> Get(body, "rating")]

\* FastAPI answers a body the model rejects with 422, before the handler runs
ValidationError == Raise("ValidationError", 422)

(***************************************************************************)
(* The document store.                                                     *)
(***************************************************************************)
\* the module-level handle imported from database; the model is of a
\* deployment whose store is configured
db_available == TRUE

\* an item_id that is no 24-digit hex string
MalformedId == 0

\* bson.ObjectId(item_id) raises InvalidId on such a string
ObjectIdRaises(item_id) == item_id = MalformedId

\* create_document("watchlistitem", payload): stamp, insert, return the id
create_document(s, id, payload, t) ==
    [store |-> (id :> (payload @@ [created_at |-> t, updated_at |-> t])) @@ s,
     inserted_id |-> id,
     now |-> t + 1]

\* update_one({"_id": id}, {"$set": update_data})
update_one_replace(s, id, update_data) ==
    [store |-> IF id \in DOMAIN s
               THEN [s EXCEPT ![id] = update_data]
               ELSE s,
     matched_count |-> IF id \in DOMAIN s THEN 1 ELSE 0]

update_one(s, id, update_data) ==
    [store |-> IF id \in DOMAIN s
               THEN [s EXCEPT ![id] = update_data @@ s[id]]
               ELSE s,
     matched_count |-> IF id \in DOMAIN s THEN 1 ELSE 0]

\* delete_one({"_id": id})
delete_one(s, id) ==
    [store |-> [i \in DOMAIN s \ {id} |-> s[i]],
     deleted_count |-> IF id \in DOMAIN s THEN 1 ELSE 0]

(***************************************************************************)
(* The watchlist handlers.                                                 *)
(***************************************************************************)
DatabaseNotAvailable == Raise("Database not available", 500)

\* except Exception as e: raise HTTPException(status_code=500, detail=str(e))
\* HTTPException is an Exception, so the handler's own 404 is caught as well
ExceptException(outcome) ==
    IF outcome.kind = "raise" THEN Raise(outcome.status, 500) ELSE outcome

\* {k: v for k, v in payload.model_dump().items() if v is not None}
UpdateDataUnfiltered(payload) == payload

UpdateDataTruthy(payload) ==
    [f \in {k \in DOMAIN payload :
                /\ payload[k] # None
                /\ k = "liked" => payload[k] # Some(FALSE)
                /\ k = "rating" => payload[k] # Some(0)} |-> payload[f]]

UpdateData(payload) ==
    [f \in {k \in DOMAIN payload : payload[k] # None} |-> payload[f]]

\* the try block of update_watchlist_item, without its early return
UpdateTryNoEarlyReturn(s, item_id, payload, t) ==
    LET update_data == UpdateData(payload)
        stamped == update_data @@ [updated_at |-> t]
        res == update_one(s, item_id, stamped)
    IN  IF ObjectIdRaises(item_id)
        THEN [store |-> s, out |-> Raise("InvalidId", 0), now |-> t + 1]
        ELSE IF res.matched_count = 0
             THEN [store |-> res.store, out |-> Raise("Item not found", 404), now |-> t + 1]
             ELSE [store |-> res.store, out |-> Return("ok", 0), now |-> t + 1]

\* the try block of update_watchlist_item; now is the clock after it
UpdateTry(s, item_id, payload, t) ==
    LET update_data == UpdateData(payload)
        stamped == update_data @@ [updated_at |-> t]
        res == update_one(s, item_id, stamped)
    IN  IF DOMAIN update_data = {}
        THEN [store |-> s, out |-> Return("no-op", 0), now |-> t]
        ELSE IF ObjectIdRaises(item_id)
             THEN [store |-> s, out |-> Raise("InvalidId", 0), now |-> t + 1]
             ELSE IF res.matched_count = 0
                  THEN [store |-> res.store, out |-> Raise("Item not found", 404),
                        now |-> t + 1]
                  ELSE [store |-> res.store, out |-> Return("ok", 0), now |-> t + 1]

\* update_watchlist_item(item_id, payload)
update_watchlist_item(s, item_id, payload, t) ==
    IF ~db_available
    THEN [store |-> s, out |-> DatabaseNotAvailable, now |-> t]
    ELSE LET r == UpdateTry(s, item_id, payload, t)
         IN  [store |-> r.store, out |-> ExceptException(r.out), now |-> r.now]

\* delete_watchlist_item(item_id)
delete_watchlist_item(s, item_id) ==
    IF ~db_available
    THEN [store |-> s, out |-> DatabaseNotAvailable]
    ELSE LET res == delete_one(s, item_id)
             r == IF ObjectIdRaises(item_id)
                  THEN [store |-> s, out |-> Raise("InvalidId", 0)]
                  ELSE IF res.deleted_count = 0
                       THEN [store |-> res.store, out |-> Raise("Item not found", 404)]
                       ELSE [store |-> res.store, out |-> Return("ok", 0)]
         IN  [store |-> r.store, out |-> ExceptException(r.out)]

\* add_watchlist_item(payload)
add_watchlist_item(s, id, payload, t) ==
    LET r == create_document(s, id, payload, t)
    IN  [store |-> r.store, out |-> Return("ok", r.inserted_id), now |-> r.now]

(***************************************************************************)
(* Requests the clients send.                                              *)
(***************************************************************************)
\* JSON objects that carry the key with one of the values, or lack the key
Opt(key, values) == {<<>>} \cup {key :> v : v \in values}

\* PATCH bodies: each key absent, null, valid or (status, rating) invalid
UpdateBodies ==
    {s @@ l @@ r :
        s \in Opt("status", {None, Some("watched"), Some("done")}),
        l \in Opt("liked", {Some(FALSE)}),
        r \in Opt("rating", {None, Some(0), Some(11)})}

CreateBase == [user_id |-> Some("u1"), tmdb_id |-> Some(603), title |-> Some("Heat")]

\* POST bodies: defaults, every optional key set, and one violation each
CreateBodies ==
    {CreateBase,
     CreateBase @@ [media_type |-> Some("tv"), status |-> Some("watching"),
                    liked |-> Some(TRUE), rating |-> Some(10), year |-> Some(1995)],
     CreateBase @@ [rating |-> None],
     CreateBase @@ [rating |-> Some(11)],
     CreateBase @@ [rating |-> Some(-1)],
     CreateBase @@ [status |-> Some("done")],
     CreateBase @@ [media_type |-> Some("person")],
     CreateBase @@ [media_type |-> None],
     [user_id |-> Some("u1"), tmdb_id |-> Some(603)]}

\* the ids a client can name: malformed, stored, or valid and never stored
ItemIds == 0 .. MaxItems + 1

(***************************************************************************)
(* Watchlist requests, served one at a time: a handler runs from arrival   *)
(* to response in one step, then the response is sent.                     *)
(***************************************************************************)
CreateReq(body) ==
    /\ req = NoRequest
    /\ req' = [op |-> "create", item_id |-> 0, body |-> body]
    /\ prev' = store
    /\ IF ~ValidCreate(body)
       THEN /\ resp' = ValidationError
            /\ UNCHANGED <<store, nextId, now>>
       ELSE /\ nextId <= MaxItems
            /\ LET r == add_watchlist_item(store, nextId, WatchlistCreate(body), now)
               IN  /\ r.now <= MaxClock
                   /\ store' = r.store
                   /\ resp' = r.out
                   /\ now' = r.now
            /\ nextId' = nextId + 1
    /\ UNCHANGED <<concVars, mapVars, detailVars, searchVars>>

UpdateReq(item_id, body) ==
    /\ req = NoRequest
    /\ req' = [op |-> "update", item_id |-> item_id, body |-> body]
    /\ prev' = store
    /\ IF ~ValidUpdate(body)
       THEN /\ resp' = ValidationError
            /\ UNCHANGED <<store, now>>
       ELSE LET r == update_watchlist_item(store, item_id, WatchlistUpdate(body), now)
            IN  /\ r.now <= MaxClock
                /\ store' = r.store
                /\ resp' = r.out
                /\ now' = r.now
    /\ UNCHANGED <<nextId, concVars, mapVars, detailVars, searchVars>>

DeleteReq(item_id) ==
    /\ req = NoRequest
    /\ req' = [op |-> "delete", item_id |-> item_id, body |-> <<>>]
    /\ prev' = store
    /\ LET r == delete_watchlist_item(store, item_id)
       IN  /\ store' = r.store
           /\ resp' = r.out
    /\ UNCHANGED <<nextId, now, concVars, mapVars, detailVars, searchVars>>

Create == \E body \in CreateBodies : CreateReq(body)

Update == \E item_id \in ItemIds, body \in UpdateBodies : UpdateReq(item_id, body)

Delete == \E item_id \in ItemIds : DeleteReq(item_id)

\* the response leaves the server and the request is over
Respond ==
    /\ req # NoRequest
    /\ req' = NoRequest
    /\ resp' = NoResponse
    /\ prev' = <<>>
    /\ UNCHANGED <<store, nextId, now, concVars, mapVars, detailVars, searchVars>>

IdleWatchlist ==
    /\ store = <<>> /\ nextId = 1 /\ now = 0
    /\ req = NoRequest /\ resp = NoResponse /\ prev = <<>>
IdleConc == pc = <<>> /\ local = <<>> /\ cresp = <<>>
IdleMap == item = <<>> /\ mapped = NoResponse
IdleDetail == data = <<>> /\ detail = NoResponse
IdleSearch == upstream = <<>> /\ found = NoResponse

Init == IdleWatchlist /\ IdleConc /\ IdleMap /\ IdleDetail /\ IdleSearch

Next == Create \/ Update \/ Delete \/ Respond

Spec == Init /\ [][Next]_vars

(***************************************************************************)
(* Watchlist claims.                                                       *)
(***************************************************************************)
\* the keys of the body that carry a value other than null
NonNull(body) == {f \in DOMAIN body : body[f] # None}

\* C1: a valid update that provides a field, or a delete, whose identifier
\* (a well-formed one) matches no stored document is answered 404 NotFound,
\* not 500, and leaves the collection as it was.
C1_NotFoundReported ==
    (/\ req.item_id \notin DOMAIN prev
     /\ ~ObjectIdRaises(req.item_id)
     /\ \/ req.op = "delete"
        \/ req.op = "update" /\ NonNull(req.body) # {} /\ ValidUpdate(req.body))
        => (resp.code = 404 /\ store = prev)

\* C2: an update of a stored item gives every field the body provides with a
\* value that value, changes no field other than those the body provides and
\* updated_at, and changes no other document.
C2_PartialUpdate ==
    (req.op = "update" /\ req.item_id \in DOMAIN prev) =>
        /\ DOMAIN store = DOMAIN prev
        /\ \A i \in DOMAIN prev \ {req.item_id} : store[i] = prev[i]
        /\ DOMAIN store[req.item_id] = DOMAIN prev[req.item_id]
        /\ \A f \in DOMAIN prev[req.item_id] \ (DOMAIN req.body \cup {"updated_at"}) :
                store[req.item_id][f] = prev[req.item_id][f]
        /\ resp.code = 200 =>
                \A f \in NonNull(req.body) : store[req.item_id][f] = req.body[f]

\* C2 witness: an update that provided only a rating and liked = false has
\* succeeded on an item created as "watching" and liked, beside a second
\* document.
C2_Witness ==
    /\ req.op = "update" /\ resp.status = "ok"
    /\ req.body = [liked |-> Some(FALSE), rating |-> Some(0)]
    /\ prev[req.item_id].status = Some("watching")
    /\ prev[req.item_id].liked = Some(TRUE)
    /\ store[req.item_id].updated_at > prev[req.item_id].updated_at
    /\ Cardinality(DOMAIN store) = 2

\* C3: an update whose body provides no fields returns the no-op result,
\* whether the identifier is malformed, unknown or stored, and leaves the
\* collection, updated_at included, as it was.
C3_EmptyUpdateNoOp ==
    (req.op = "update" /\ DOMAIN req.body = {}) =>
        (resp = Return("no-op", 0) /\ store = prev)

\* C3 witness: the no-op result was returned for a stored item.
C3_Witness ==
    /\ req.op = "update" /\ DOMAIN req.body = {}
    /\ req.item_id \in DOMAIN store
    /\ resp.status = "no-op"

\* the rating is null or within [0, 10]
RatingInRange(r) == r = None \/ r[1] \in 0 .. 10

\* every stored document satisfies the declared constraints
StoredValid ==
    \A i \in DOMAIN store :
        /\ RatingInRange(store[i].rating)
        /\ store[i].status # None /\ store[i].status[1] \in Statuses
        /\ store[i].media_type # None /\ store[i].media_type[1] \in MediaTypes

\* the body violates the declared range or an enumeration
Violating(body) ==
    \/ ~RatingInRange(Get(body, "rating"))
    \/ Get(body, "status") # None /\ Get(body, "status")[1] \notin Statuses
    \/ Get(body, "media_type") # None /\ Get(body, "media_type")[1] \notin MediaTypes

\* C5: every stored document has rating null or within [0, 10], status and
\* media_type in their enumerations; a create or update carrying a violating
\* value is rejected and leaves the collection as it was.
C5_ConstraintsKept ==
    /\ StoredValid
    /\ (req.op \in {"create", "update"} /\ Violating(req.body))
            => (resp.code = 422 /\ store = prev)

\* C5 witness: a create with rating 11 was rejected while documents rated at
\* both ends of the range are stored.
C5_Witness ==
    /\ req.op = "create" /\ Get(req.body, "rating") = Some(11)
    /\ resp.code = 422
    /\ \E i \in DOMAIN store : store[i].rating = Some(10)
    /\ \E i \in DOMAIN store : store[i].rating = Some(0)

\* C10: a body whose provided fields are all null is a no-op, and no update
\* turns a stored non-null rating into null.
C10_NullIsOmitted ==
    req.op = "update" =>
        /\ NonNull(req.body) = {} => (resp = Return("no-op", 0) /\ store = prev)
        /\ \A i \in DOMAIN prev :
                prev[i].rating # None =>
                    (i \in DOMAIN store /\ store[i].rating # None)

\* C10 witness: an update that provided rating = null, and a status, has
\* succeeded on a rated item.
C10_Witness ==
    /\ req.op = "update" /\ resp.status = "ok"
    /\ Get(req.body, "rating") = None /\ "rating" \in DOMAIN req.body
    /\ prev[req.item_id].rating = Some(10)

(***************************************************************************)
(* Two clients update concurrently.  A handler touches the store once, in  *)
(* update_one, which the store applies atomically to the document; what    *)
(* comes before (building update_data, reading the clock) and after        *)
(* (reading matched_count) is local to the request.                        *)
(***************************************************************************)
Clients == {"A", "B"}

\* the documents a valid create leaves in the collection
CreatedDocs ==
    {create_document(<<>>, 1, WatchlistCreate(body), 0).store[1] :
        body \in {b \in CreateBodies : ValidCreate(b)}}

\* lines 202-208: the body was validated at the boundary; build update_data,
\* return early when it is empty, else read the clock
Build(c) ==
    /\ pc[c] = "start"
    /\ LET body == local[c].body
           update_data == UpdateData(WatchlistUpdate(body))
       IN  IF ~ValidUpdate(body)
           THEN /\ pc' = [pc EXCEPT ![c] = "done"]
                /\ cresp' = [cresp EXCEPT ![c] = ValidationError]
                /\ UNCHANGED <<local, now>>
           ELSE IF ~db_available
           THEN /\ pc' = [pc EXCEPT ![c] = "done"]
                /\ cresp' = [cresp EXCEPT ![c] = DatabaseNotAvailable]
                /\ UNCHANGED <<local, now>>
           ELSE IF DOMAIN update_data = {}
           THEN /\ pc' = [pc EXCEPT ![c] = "done"]
                /\ cresp' = [cresp EXCEPT ![c] = Return("no-op", 0)]
                /\ UNCHANGED <<local, now>>
           ELSE /\ pc' = [pc EXCEPT ![c] = "built"]
                /\ local' = [local EXCEPT
                                ![c].update_data = update_data @@ [updated_at |-> now]]
                /\ now' = now + 1
                /\ UNCHANGED cresp
    /\ UNCHANGED <<store, nextId, req, resp, prev, mapVars, detailVars, searchVars>>

\* lines 209-214: ObjectId, update_one, matched_count, the except clause
Apply(c) ==
    /\ pc[c] = "built"
    /\ LET res == update_one(store, local[c].item_id, local[c].update_data)
           out == IF ObjectIdRaises(local[c].item_id)
                  THEN Raise("InvalidId", 0)
                  ELSE IF res.matched_count = 0
                       THEN Raise("Item not found", 404)
                       ELSE Return("ok", 0)
       IN  /\ store' = IF ObjectIdRaises(local[c].item_id) THEN store ELSE res.store
           /\ cresp' = [cresp EXCEPT ![c] = ExceptException(out)]
    /\ pc' = [pc EXCEPT ![c] = "done"]
    /\ UNCHANGED <<local, now, nextId, req, resp, prev, mapVars, detailVars, searchVars>>

ConcInit ==
    /\ \E doc \in CreatedDocs : store = (1 :> doc)
    /\ nextId = 2
    /\ now = 1
    /\ req = NoRequest /\ resp = NoResponse /\ prev = <<>>
    /\ pc = [c \in Clients |-> "start"]
    /\ local \in [Clients -> [item_id : {1, 2}, body : UpdateBodies, update_data : {<<>>}]]
    /\ cresp = [c \in Clients |-> NoResponse]
    /\ IdleMap /\ IdleDetail /\ IdleSearch

ConcNext == \E c \in Clients : Build(c) \/ Apply(c)

SpecConc == ConcInit /\ [][ConcNext]_vars

\* both requests are over
AllDone == \A c \in Clients : pc[c] = "done"

\* the two valid bodies provide values for disjoint, non-empty sets of fields
DisjointUpdates ==
    /\ \A c \in Clients : ValidUpdate(local[c].body) /\ NonNull(local[c].body) # {}
    /\ NonNull(local["A"].body) \cap NonNull(local["B"].body) = {}

\* C4: two concurrent updates of the same stored item that provide disjoint
\* sets of fields both succeed, in every interleaving, and the document ends
\* with the values of both.
C4_DisjointUpdatesBothKept ==
    (/\ AllDone
     /\ local["A"].item_id = 1 /\ local["B"].item_id = 1
     /\ DisjointUpdates)
        => /\ \A c \in Clients : cresp[c] = Return("ok", 0)
           /\ \A c \in Clients :
                \A f \in NonNull(local[c].body) :
                    f \in DOMAIN store[1] /\ store[1][f] = local[c].body[f]

\* C4 witness: one client set the rating and the other the status; the
\* client that built its update first applied it last.
C4_Witness ==
    /\ AllDone
    /\ local["A"].item_id = 1 /\ local["B"].item_id = 1
    /\ local["A"].body = [rating |-> Some(0)]
    /\ local["B"].body = [status |-> Some("watched"), rating |-> None]
    /\ cresp["A"].status = "ok" /\ cresp["B"].status = "ok"
    /\ local["A"].update_data.updated_at < local["B"].update_data.updated_at
    /\ store[1].updated_at = local["A"].update_data.updated_at

(***************************************************************************)
(* map_item applied to one upstream record.                                *)
(***************************************************************************)
DateAlphabet == {"1", "-", "x"}

\* the strings over the alphabet, up to the given length
Strings(n) == UNION {[1 .. k -> DateAlphabet] : k \in 0 .. n}

\* upstream records: a key is absent, or carries "" or a value; the
\* release_date is absent, null or any string over the alphabet
UpstreamRecords ==
    {[id |-> Some(603), vote_average |-> Some(8), backdrop_path |-> Some("/bd.jpg")]
        @@ m @@ t @@ n @@ r @@ f @@ p :
        m \in Opt("media_type", {Some(""), Some("movie"), Some("tv"), Some("person")}),
        t \in Opt("title", {Some(""), Some("Heat")}),
        n \in Opt("name", {Some(""), Some("Dark")}),
        r \in Opt("release_date", {None} \cup {Some(d) : d \in Strings(MaxDateLen)}),
        f \in Opt("first_air_date", {Some(<<"1", "1">>), Some(<<"x", "-", "1">>)}),
        p \in Opt("poster_path", {Some(""), Some("/abc.jpg")})}

MapInit ==
    /\ item \in UpstreamRecords
    /\ mapped = NoResponse
    /\ IdleWatchlist /\ IdleConc /\ IdleDetail /\ IdleSearch

MapItem ==
    /\ mapped = NoResponse
    /\ mapped' = map_item(item)
    /\ UNCHANGED <<item, wlVars, concVars, detailVars, searchVars>>

SpecMap == MapInit /\ [][MapItem]_vars

\* the record has a media_type, a name, a title that is neither null nor ""
HasMediaType == TruthyStr(Get(item, "media_type"))
HasName == TruthyStr(Get(item, "name"))
HasTitle == TruthyStr(Get(item, "title"))

\* C6 as claimed: the output media_type is the explicit media_type if
\* present; otherwise "tv" exactly when the record has a name and no title;
\* otherwise "movie".
C6_NameWithoutTitle ==
    mapped.kind = "return" =>
        mapped.value.media_type =
            IF HasMediaType THEN item.media_type
            ELSE IF HasName /\ ~HasTitle THEN Some("tv") ELSE Some("movie")

\* C6 as amended: the output media_type is the explicit media_type if
\* present and non-empty; otherwise "tv" exactly when the record has a
\* non-empty name, whether or not it has a title; otherwise "movie".
C6_NameDecides ==
    mapped.kind = "return" =>
        /\ HasMediaType => mapped.value.media_type = item.media_type
        /\ (~HasMediaType /\ HasName) => mapped.value.media_type = Some("tv")
        /\ (~HasMediaType /\ ~HasName) => mapped.value.media_type = Some("movie")

\* C6 witness: a record without media_type that has both a title and a name
\* was normalized to "tv", under the title.
C6_Witness ==
    /\ mapped.kind = "return"
    /\ ~HasMediaType /\ HasName /\ HasTitle
    /\ mapped.value.media_type = Some("tv")
    /\ mapped.value.title = Some("Heat")

\* the year the claim expects: the integer first segment of release_date,
\* else of first_air_date; null when there is no date or no integer
ExpectedYear ==
    LET date == IF TruthySeq(Get(item, "release_date"))
                THEN Get(item, "release_date") ELSE Get(item, "first_air_date")
    IN  IF TruthySeq(date) /\ ~IntRaises(FirstSegment(date[1]))
        THEN Some(DecimalValue(FirstSegment(date[1]))) ELSE None

\* C7: the normalizer returns a canonical item for every record and never
\* raises; year is the integer first segment of release_date (preferred) or
\* first_air_date, null when the date is missing or malformed.
C7_NeverRaises ==
    mapped # NoResponse =>
        /\ mapped.kind = "return"
        /\ mapped.value.year = ExpectedYear

(***************************************************************************)
(* title_details applied to one upstream detail record.  The embedded      *)
(* lists (genres, credits.cast, videos.results) are absent or lists.       *)
(***************************************************************************)
Videos ==
    {[site |-> Some("YouTube"), type |-> Some(type), key |-> Some(key)] :
        type \in {"Trailer", "Teaser", "Clip"},
        key \in {"abc", "xyz"}}
    \cup {[site |-> Some("Vimeo"), type |-> Some("Trailer"), key |-> Some("abc")],
          [site |-> Some("YouTube"), type |-> Some("Trailer")]}

\* the lists over a set, up to the given length
Lists(S, n) == UNION {[1 .. k -> S] : k \in 0 .. n}

CastMember(i) ==
    [id |-> Some(i), name |-> Some("actor"), character |-> Some("role")]
        @@ (IF i % 2 = 1 THEN [profile_path |-> Some("/face.jpg")] ELSE <<>>)

Genres == <<[id |-> Some(1), name |-> Some("Crime")], [id |-> Some(2)]>>

\* detail records without their videos: a movie, a show, a bare record, a
\* record with a malformed date
DetailBases ==
    {[id |-> Some(603), title |-> Some("Heat"), tagline |-> Some("..."),
      release_date |-> Some(<<"1", "9", "-", "1">>), runtime |-> Some(120),
      genres |-> Some(Genres),
      credits |-> Some([cast |-> Some([i \in 1 .. CastLimit + 1 |-> CastMember(i)])])],
     [id |-> Some(70), name |-> Some("Dark"),
      first_air_date |-> Some(<<"2", "0", "-", "1">>), runtime |-> Some(0),
      episode_run_time |-> Some(<<Some(45), Some(50)>>),
      credits |-> Some([cast |-> Some([i \in 1 .. 2 |-> CastMember(i)])])],
     [id |-> Some(71), name |-> Some("Lost"), episode_run_time |-> Some(<<>>),
      genres |-> Some(<<>>), credits |-> Some(<<>>)],
     [id |-> Some(72), name |-> Some("Okay"),
      episode_run_time |-> Some(<<Some(30)>>)],
     [id |-> Some(604)],
     [id |-> Some(605), title |-> Some("Ran"),
      release_date |-> Some(<<"x", "-", "1">>), runtime |-> Some(160)]}

DetailRecords ==
    {base @@ v :
        base \in DetailBases,
        v \in Opt("videos", {Some(<<>>)} \cup
                {Some([results |-> Some(l)]) : l \in Lists(Videos, MaxVideos)})}

\* what an upstream call can meet: no API key configured, a response that
\* is not ok, or a response carrying one of the JSON objects
Upstreams(jsons) ==
    {[api_key |-> FALSE, ok |-> TRUE, status_code |-> 200, json |-> <<>>],
     [api_key |-> TRUE, ok |-> FALSE, status_code |-> 404, json |-> <<>>]}
    \cup {[api_key |-> TRUE, ok |-> TRUE, status_code |-> 200, json |-> j] : j \in jsons}

DetailInit ==
    /\ data \in Upstreams(DetailRecords)
    /\ detail = NoResponse
    /\ IdleWatchlist /\ IdleConc /\ IdleMap /\ IdleSearch

TitleDetails ==
    /\ detail = NoResponse
    /\ detail' = title_details(data)
    /\ UNCHANGED <<data, wlVars, concVars, mapVars, searchVars>>

SpecDetail == DetailInit /\ [][TitleDetails]_vars

\* the upstream video list, empty when it is absent
VideoList ==
    IF "videos" \in DOMAIN data.json /\ "results" \in DOMAIN data.json.videos[1]
    THEN data.json.videos[1].results[1] ELSE <<>>

\* video i of the upstream list is a YouTube trailer or teaser
Qualifies(i) ==
    /\ VideoList[i].site = Some("YouTube")
    /\ VideoList[i].type \in {Some("Trailer"), Some("Teaser")}

\* C8: trailer_key is the key of the first video, in upstream order, whose
\* site is "YouTube" and whose type is "Trailer" or "Teaser"; null when no
\* video qualifies or the list is absent.
C8_FirstQualifyingVideo ==
    detail.kind = "return" =>
        IF \E i \in 1 .. Len(VideoList) : Qualifies(i)
        THEN \E i \in 1 .. Len(VideoList) :
                /\ Qualifies(i)
                /\ \A j \in 1 .. i - 1 : ~Qualifies(j)
                /\ detail.value.trailer_key = Get(VideoList[i], "key")
        ELSE detail.value.trailer_key = None

\* C8 witness: after a clip, the teaser was chosen, not the trailer that
\* follows it.
C8_Witness ==
    /\ detail.kind = "return"
    /\ VideoList =
        <<[site |-> Some("YouTube"), type |-> Some("Clip"), key |-> Some("xyz")],
          [site |-> Some("YouTube"), type |-> Some("Teaser"), key |-> Some("abc")],
          [site |-> Some("YouTube"), type |-> Some("Trailer"), key |-> Some("xyz")]>>
    /\ detail.value.trailer_key = Some("abc")

(***************************************************************************)
(* search applied to one upstream result list.                             *)
(***************************************************************************)
SearchEntries ==
    {n @@ m @@ r :
        n \in {[id |-> Some(1), title |-> Some("Heat")],
               [id |-> Some(2), name |-> Some("Dark")]},
        m \in Opt("media_type", {Some("movie"), Some("tv"), Some("person")}),
        r \in Opt("release_date", {Some(<<"x", "-", "1">>)})}

SearchInit ==
    /\ upstream \in Upstreams({<<>>} \cup
            {[results |-> Some(l)] : l \in Lists(SearchEntries, MaxResults)})
    /\ found = NoResponse
    /\ IdleWatchlist /\ IdleConc /\ IdleMap /\ IdleDetail

Search ==
    /\ found = NoResponse
    /\ found' = search(upstream)
    /\ UNCHANGED <<upstream, wlVars, concVars, mapVars, detailVars>>

SpecSearch == SearchInit /\ [][Search]_vars

\* the upstream entries, none when the list is absent
Entries ==
    IF "results" \in DOMAIN upstream.json THEN upstream.json.results[1] ELSE <<>>

\* the positions of the entries whose media_type is movie or tv
Wanted ==
    {i \in 1 .. Len(Entries) :
        "media_type" \in DOMAIN Entries[i]
            /\ Entries[i].media_type \in {Some("movie"), Some("tv")}}

\* C9: the output holds exactly the normalized forms of the entries whose
\* media_type is movie or tv, in upstream order; entries with another
\* media_type or none never appear, so every output item is a movie or tv.
C9_OnlyMovieOrTv ==
    found.kind = "return" =>
        LET out == found.value.results
        IN  /\ Len(out) = Cardinality(Wanted)
            /\ \A i \in Wanted :
                    out[Cardinality({j \in Wanted : j <= i})] = map_item(Entries[i]).value
            /\ \A k \in 1 .. Len(out) :
                    out[k].media_type \in {Some("movie"), Some("tv")}

\* C9 witness: a person was dropped from between a show and a movie.
C9_Witness ==
    /\ found.kind = "return"
    /\ Len(Entries) = 3
    /\ Get(Entries[1], "media_type") = Some("tv") /\ Entries[1].id = Some(2)
    /\ Get(Entries[2], "media_type") = Some("person")
    /\ Get(Entries[3], "media_type") = Some("movie") /\ Entries[3].id = Some(1)
    /\ Len(found.value.results) = 2
    /\ found.value.results[1].id = Some(2)
    /\ found.value.results[2].id = Some(1)

====
